---- MODULE Spec2Model ----
(***************************************************************************)
(* One run of main() of prediction_ui.py: the Streamlit script that posts  *)
(* the input features to /predict, renders the prediction, derives the     *)
(* "Model Health Risk" section from /failure-risk (or from the prediction  *)
(* confidence when that report is unusable) and renders the "Model         *)
(* Comparison" section with the system-wide health indicator.              *)
(*                                                                         *)
(* Numbers that the code handles as fractions (confidence, degradation,    *)
(* failure probability) are integers in hundredths: 0.75 is 75, 1.0 is 100.*)
(* JSON values are records [tag, num, str]; tag "absent" is a key that is  *)
(* missing from the payload.                                               *)
(***************************************************************************)
EXTENDS Integers, Sequences, FiniteSets, TLC

VARIABLES
    pc,                 \* position of the script run
    calls,              \* remote calls issued by this run, in order
    response,           \* outcome of requests.post(.../predict)
    risk_response,      \* outcome of the first requests.get(.../failure-risk)
    failure_risk_response, \* outcome of the second requests.get(.../failure-risk)
    top,                \* widgets of the prediction result block
    health,             \* widgets of the "Model Health Risk" section
    path,               \* branches of the health section that ran, in order
    comparison          \* widgets of the "Model Comparison" section

vars == <<pc, calls, response, risk_response, failure_risk_response,
          top, health, path, comparison>>

----------------------------------------------------------------------------
(* Program constants, in hundredths *)

One == 100
HealthyAbove == 75
RiskyAbove == 50
SystemHealthyBelow == 30
SystemAtRiskBelow == 70
StatusOK == 200

(* Largest overall_degradation the upstream service reports in the model *)
MaxDegradation == 150

----------------------------------------------------------------------------
(* JSON values and dict.get *)

Absent == [tag |-> "absent", num |-> 0, str |-> ""]
Num(n) == [tag |-> "num", num |-> n, str |-> ""]
Str(s) == [tag |-> "str", num |-> 0, str |-> s]

\* dict.get(key, default)
Get(field, default) == IF field.tag = "absent" THEN default ELSE field

\* f"{x:.2%}" and f"{x:.1%}" of a number given in hundredths
Pct2(n) == ToString(n) \o ".00%"
Pct1(n) == ToString(n) \o ".0%"

\* str.upper() on the strings the model uses
Upper(s) ==
    CASE s = "good" -> "GOOD"
      [] s = "bad" -> "BAD"
      [] OTHER -> s

\* min(1.0, x)
Min(a, b) == IF a <= b THEN a ELSE b

----------------------------------------------------------------------------
(* Rendered widgets.  A step of a rendering block is the widget it shows   *)
(* and whether evaluating its arguments succeeds; a block renders its      *)
(* steps in order up to the first one that raises.                         *)

W(kind, label, text, num) ==
    [kind |-> kind, label |-> label, text |-> text, num |-> num]

Step(ok, w) == [ok |-> ok, w |-> w]

FirstRaise(steps) ==
    IF \E i \in 1..Len(steps) : ~steps[i].ok
    THEN CHOOSE i \in 1..Len(steps) :
            /\ ~steps[i].ok
            /\ \A j \in 1..(i - 1) : steps[j].ok
    ELSE Len(steps) + 1

Rendered(steps) == [i \in 1..(FirstRaise(steps) - 1) |-> steps[i].w]

Raises(steps) == FirstRaise(steps) <= Len(steps)

Indicators(ws) == SelectSeq(ws, LAMBDA w : w.kind = "indicator")
Progress(ws) == SelectSeq(ws, LAMBDA w : w.kind = "progress")
Metric(ws, label) ==
    SelectSeq(ws, LAMBDA w : w.kind = "metric" /\ w.label = label)

----------------------------------------------------------------------------
(* Inputs: what the remote service can answer *)

ConfidenceValues == {0, 50, 51, 75, 76, 100}

NoBody == [prediction |-> Absent, confidence |-> Absent,
           latency |-> Absent, model_type |-> Absent]

PredictBodies ==
    [prediction : {Absent, Num(1)},
     confidence : {Absent, Str("high")} \cup {Num(c) : c \in ConfidenceValues},
     latency    : {Absent, Num(12)},
     model_type : {Absent, Num(1), Str("good")}]

\* kind "response" is a completed HTTP exchange; decodes tells whether
\* response.json() succeeds
PredictResponses ==
    [kind : {"ConnectionError", "ReadTimeout"}, status : {0},
     decodes : {FALSE}, body : {NoBody}]
    \cup [kind : {"response"}, status : {404, 500},
          decodes : {FALSE}, body : {NoBody}]
    \cup [kind : {"response"}, status : {StatusOK},
          decodes : {FALSE}, body : {NoBody}]
    \cup [kind : {"response"}, status : {StatusOK},
          decodes : {TRUE}, body : PredictBodies]

NoResponse == [kind |-> "none", status |-> 0, decodes |-> FALSE, body |-> NoBody]

----------------------------------------------------------------------------
(* The prediction result block, lines 165-210 and 304-313 *)

TopMetrics(result) ==
    << Step(TRUE, W("notice", "success", "Prediction completed successfully!", 0)),
       Step(result.prediction.tag # "absent",
            W("metric", "Prediction", ToString(result.prediction.num), 0)),
       Step(result.confidence.tag = "num",
            W("metric", "Confidence", Pct2(result.confidence.num), 0)),
       Step(result.latency.tag = "num",
            W("metric", "Latency", ToString(result.latency.num) \o ".00 ms", 0)),
       Step(result.model_type.tag = "str",
            W("metric", "Model Used", Upper(result.model_type.str), 0)) >>

ErrorNotice == W("notice", "error", "Error", 0)

PredictionBlock(r) ==
    CASE r.kind = "ConnectionError" ->
            [widgets |-> << W("notice", "connection_failed", "Connection failed!", 0),
                            W("notice", "info", "Start the API", 0) >>,
             proceeds |-> FALSE]
      [] r.kind = "ReadTimeout" ->
            [widgets |-> << ErrorNotice >>, proceeds |-> FALSE]
      [] r.kind = "response" /\ r.status # StatusOK ->
            [widgets |-> << W("notice", "api_error", "API Error", r.status),
                            W("code", "", "response.text", 0) >>,
             proceeds |-> FALSE]
      [] r.kind = "response" /\ r.status = StatusOK /\ ~r.decodes ->
            [widgets |-> << ErrorNotice >>, proceeds |-> FALSE]
      [] OTHER ->
            IF Raises(TopMetrics(r.body))
            THEN [widgets |-> Rendered(TopMetrics(r.body)) \o << ErrorNotice >>,
                  proceeds |-> FALSE]
            ELSE [widgets |-> Rendered(TopMetrics(r.body)), proceeds |-> TRUE]

----------------------------------------------------------------------------
(* Inputs: the /failure-risk report as the health section reads it *)

NoDegradation ==
    [tag |-> "absent", overall_degradation |-> Absent,
     confidence_drop |-> Absent, psi_increase |-> Absent]

\* a "degradation" value that is no JSON object (null, a number, a string)
NotADict ==
    [tag |-> "other", overall_degradation |-> Absent,
     confidence_drop |-> Absent, psi_increase |-> Absent]

Degradations ==
    {NoDegradation, NotADict}
    \cup [tag : {"dict"},
          overall_degradation :
              {Absent, Str("n/a"), Num(0 - 10), Num(0), Num(42), Num(One),
               Num(MaxDegradation)},
          confidence_drop : {Absent, Num(5), Str("n/a")},
          psi_increase : {Num(20), Str("n/a")}]

NoRiskBody == [error |-> Absent, risk |-> Absent, degradation |-> NoDegradation]

RiskBodies ==
    [error : {Absent, Str("insufficient data"), Num(0)},
     risk : {Absent, Str("HIGH"), Str("MEDIUM"), Str("LOW"), Str("UNKNOWN"),
             Str("high")},
     degradation : Degradations]

RiskResponses ==
    [kind : {"ConnectionError", "ReadTimeout"}, status : {0},
     decodes : {FALSE}, body : {NoRiskBody}]
    \cup [kind : {"response"}, status : {204, 500},
          decodes : {FALSE}, body : {NoRiskBody}]
    \cup [kind : {"response"}, status : {StatusOK},
          decodes : {FALSE}, body : {NoRiskBody}]
    \cup [kind : {"response"}, status : {StatusOK},
          decodes : {TRUE}, body : RiskBodies]

NoRiskResponse ==
    [kind |-> "none", status |-> 0, decodes |-> FALSE, body |-> NoRiskBody]

----------------------------------------------------------------------------
(* The "Model Health Risk" section, lines 216-298 *)

\* lines 227-235: the indicator chosen from the report's risk field
RiskIndicator(risk_level) ==
    CASE risk_level = "HIGH" ->
            W("indicator", "CRITICAL", "Model Likely to Collapse", 0)
      [] risk_level = "MEDIUM" ->
            W("indicator", "RISKY", "Model Degrading", 0)
      [] OTHER ->
            W("indicator", "HEALTHY", "Model Healthy", 0)

\* TelemetryProgress without the min(1.0, ...) clamp
TelemetryProgressUnclamped(overall_deg, confidence) ==
    IF overall_deg > 0 THEN overall_deg ELSE confidence

\* TelemetryProgress falling back to the confidence only below 0
TelemetryProgressNoFallback(overall_deg, confidence) ==
    Min(One, IF overall_deg >= 0 THEN overall_deg ELSE confidence)

\* line 237: the argument of st.progress in the telemetry branch
TelemetryProgress(overall_deg, confidence) ==
    Min(One, IF overall_deg > 0 THEN overall_deg ELSE confidence)

\* lines 222-258, entered with a decoded body that has no "error" key
TelemetryBranch(risk_data, confidence) ==
    LET risk_level == Get(risk_data.risk, Str("UNKNOWN")).str
        degradation == risk_data.degradation
        overall_deg == Get(degradation.overall_degradation, Num(0))
        confidence_drop == Get(degradation.confidence_drop, Num(0))
        psi_increase == Get(degradation.psi_increase, Num(0))
        level == RiskIndicator(risk_level).label
    IN  IF degradation.tag = "other"
        THEN << Step(FALSE, RiskIndicator(risk_level)) >>
        ELSE << Step(TRUE, RiskIndicator(risk_level)),
                Step(overall_deg.tag = "num",
                     W("detail", level,
                       "Degradation: " \o Pct1(overall_deg.num) \o " from baseline", 0)),
                Step(overall_deg.tag = "num",
                     W("progress", "", "",
                       TelemetryProgress(overall_deg.num, confidence))),
                Step(confidence_drop.tag = "num",
                     W("metric", "Confidence Drop", Pct2(confidence_drop.num), 0)),
                Step(psi_increase.tag = "num",
                     W("metric", "PSI Increase", Pct2(psi_increase.num), 0)),
                Step(TRUE, W("metric", "Risk Level", risk_level, 0)) >>

\* ErrorMarkerBranch with both boundaries inclusive
ErrorMarkerBranchInclusive(confidence) ==
    << IF confidence >= HealthyAbove
       THEN W("indicator", "HEALTHY", "Model Healthy - High confidence prediction", 0)
       ELSE IF confidence >= RiskyAbove
       THEN W("indicator", "RISKY", "Model Risky - Medium confidence, monitor closely", 0)
       ELSE W("indicator", "CRITICAL", "Model Likely to Collapse - Very low confidence!", 0),
       W("progress", "", "", confidence),
       W("metric", "Confidence Score", Pct2(confidence), 0),
       W("metric", "Health Status",
         IF confidence >= HealthyAbove THEN "Healthy"
         ELSE IF confidence >= RiskyAbove THEN "Risky" ELSE "Critical", 0),
       W("metric", "Risk Level",
         IF confidence >= HealthyAbove THEN "Low"
         ELSE IF confidence >= RiskyAbove THEN "Medium" ELSE "High", 0) >>

\* lines 259-278: the body carries the "error" key
ErrorMarkerBranch(confidence) ==
    << IF confidence > HealthyAbove
       THEN W("indicator", "HEALTHY", "Model Healthy - High confidence prediction", 0)
       ELSE IF confidence > RiskyAbove
       THEN W("indicator", "RISKY", "Model Risky - Medium confidence, monitor closely", 0)
       ELSE W("indicator", "CRITICAL", "Model Likely to Collapse - Very low confidence!", 0),
       W("progress", "", "", confidence),
       W("metric", "Confidence Score", Pct2(confidence), 0),
       W("metric", "Health Status",
         IF confidence > HealthyAbove THEN "Healthy"
         ELSE IF confidence > RiskyAbove THEN "Risky" ELSE "Critical", 0),
       W("metric", "Risk Level",
         IF confidence > HealthyAbove THEN "Low"
         ELSE IF confidence > RiskyAbove THEN "Medium" ELSE "High", 0) >>

\* ExceptBranch whose copy of the upper boundary has drifted to 0.7
ExceptBranchDrifted(confidence) ==
    << IF confidence > 70
       THEN W("indicator", "HEALTHY", "Model Healthy - High confidence prediction", 0)
       ELSE IF confidence > 50
       THEN W("indicator", "RISKY", "Model Risky - Medium confidence, monitor closely", 0)
       ELSE W("indicator", "CRITICAL", "Model Likely to Collapse - Very low confidence!", 0),
       W("progress", "", "", confidence),
       W("metric", "Confidence Score", Pct2(confidence), 0),
       W("metric", "Health Status",
         IF confidence > 70 THEN "Healthy"
         ELSE IF confidence > 50 THEN "Risky" ELSE "Critical", 0),
       W("metric", "Risk Level",
         IF confidence > 70 THEN "Low"
         ELSE IF confidence > 50 THEN "Medium" ELSE "High", 0) >>

\* lines 279-298: the bare except around the whole section
ExceptBranch(confidence) ==
    << IF confidence > 75
       THEN W("indicator", "HEALTHY", "Model Healthy - High confidence prediction", 0)
       ELSE IF confidence > 50
       THEN W("indicator", "RISKY", "Model Risky - Medium confidence, monitor closely", 0)
       ELSE W("indicator", "CRITICAL", "Model Likely to Collapse - Very low confidence!", 0),
       W("progress", "", "", confidence),
       W("metric", "Confidence Score", Pct2(confidence), 0),
       W("metric", "Health Status",
         IF confidence > 75 THEN "Healthy"
         ELSE IF confidence > 50 THEN "Risky" ELSE "Critical", 0),
       W("metric", "Risk Level",
         IF confidence > 75 THEN "Low"
         ELSE IF confidence > 50 THEN "Medium" ELSE "High", 0) >>

\* lines 216-298: the widgets the section shows and the branches it ran
HealthSection(rr, confidence) ==
    CASE rr.kind # "response" ->
            [widgets |-> ExceptBranch(confidence), path |-> << "except" >>]
      [] rr.kind = "response" /\ rr.status # StatusOK ->
            [widgets |-> << >>, path |-> << >>]
      [] rr.kind = "response" /\ rr.status = StatusOK /\ ~rr.decodes ->
            [widgets |-> ExceptBranch(confidence), path |-> << "except" >>]
      [] OTHER ->
            IF rr.body.error.tag = "absent"
            THEN IF Raises(TelemetryBranch(rr.body, confidence))
                 THEN [widgets |-> Rendered(TelemetryBranch(rr.body, confidence))
                                   \o ExceptBranch(confidence),
                       path |-> << "telemetry", "except" >>]
                 ELSE [widgets |-> Rendered(TelemetryBranch(rr.body, confidence)),
                       path |-> << "telemetry" >>]
            ELSE [widgets |-> ErrorMarkerBranch(confidence), path |-> << "marker" >>]

----------------------------------------------------------------------------
(* Inputs: the /failure-risk report as the comparison section reads it *)

NoFailureBody ==
    [metrics_tag |-> "absent", avg_confidence |-> Absent,
     failure_probability |-> Absent]

FailureBodies ==
    [metrics_tag : {"absent", "other"}, avg_confidence : {Absent},
     failure_probability : {Num(29)}]
    \cup [metrics_tag : {"absent", "dict"},
          avg_confidence : {Absent},
          failure_probability :
              {Absent, Str("n/a"), Num(0), Num(29), Num(30), Num(69), Num(70),
               Num(71), Num(One)}]
    \cup [metrics_tag : {"dict"},
          avg_confidence : {Num(80), Str("n/a")},
          failure_probability : {Num(29), Num(70)}]

FailureResponses ==
    [kind : {"ConnectionError", "ReadTimeout"}, status : {0},
     decodes : {FALSE}, body : {NoFailureBody}]
    \cup [kind : {"response"}, status : {204, 500},
          decodes : {FALSE}, body : {NoFailureBody}]
    \cup [kind : {"response"}, status : {StatusOK},
          decodes : {FALSE}, body : {NoFailureBody}]
    \cup [kind : {"response"}, status : {StatusOK},
          decodes : {TRUE}, body : FailureBodies]

NoFailureResponse ==
    [kind |-> "none", status |-> 0, decodes |-> FALSE, body |-> NoFailureBody]

----------------------------------------------------------------------------
(* The "Model Comparison" section, lines 341-408 *)

\* SystemHealth with both boundaries inclusive
SystemHealthInclusive(failure_prob) ==
    IF failure_prob <= SystemHealthyBelow
    THEN W("system_health", "HEALTHY", "System Healthy", 0)
    ELSE IF failure_prob <= SystemAtRiskBelow
    THEN W("system_health", "AT_RISK", "System at Risk", 0)
    ELSE W("system_health", "CRITICAL", "System Critical", 0)

\* lines 378-383
SystemHealth(failure_prob) ==
    IF failure_prob < SystemHealthyBelow
    THEN W("system_health", "HEALTHY", "System Healthy", 0)
    ELSE IF failure_prob < SystemAtRiskBelow
    THEN W("system_health", "AT_RISK", "System at Risk", 0)
    ELSE W("system_health", "CRITICAL", "System Critical", 0)

\* lines 346-383, entered with a decoded body
SystemBlock(failure_data) ==
    LET avg_confidence == Get(failure_data.avg_confidence, Num(0))
        failure_prob == Get(failure_data.failure_probability, Num(0))
    IN  << Step(TRUE, W("metric", "Expected Confidence", "High (>75%)", 0)),
           Step(TRUE, W("caption", "Good Model", "Stable performance", 0)),
           Step(TRUE, W("metric", "Expected Confidence", "Low (<60%)", 0)),
           Step(TRUE, W("caption", "Bad Model", "May degrade faster", 0)),
           Step(failure_data.metrics_tag # "other" /\ avg_confidence.tag = "num",
                W("metric", "Avg Confidence", Pct2(avg_confidence.num), 0)),
           Step(failure_prob.tag = "num",
                W("metric", "Failure Risk", Pct2(failure_prob.num), 0)),
           Step(failure_prob.tag = "num", SystemHealth(failure_prob.num)) >>

\* lines 384-396
UnavailableBlock ==
    << W("metric", "Confidence", "High", 0),
       W("caption", "Good Model", "Stable", 0),
       W("metric", "Confidence", "Low", 0),
       W("caption", "Bad Model", "Risky", 0) >>

\* lines 398-408
SimpleBlock ==
    << W("metric", "Confidence", "High", 0),
       W("metric", "Confidence", "Low", 0) >>

\* lines 341-408
ComparisonSection(fr) ==
    CASE fr.kind # "response" -> SimpleBlock
      [] fr.kind = "response" /\ fr.status # StatusOK -> UnavailableBlock
      [] fr.kind = "response" /\ fr.status = StatusOK /\ ~fr.decodes -> SimpleBlock
      [] OTHER ->
            IF Raises(SystemBlock(fr.body))
            THEN Rendered(SystemBlock(fr.body)) \o SimpleBlock
            ELSE Rendered(SystemBlock(fr.body))

----------------------------------------------------------------------------

Init ==
    /\ pc = "idle"
    /\ calls = << >>
    /\ response = NoResponse
    /\ risk_response = NoRiskResponse
    /\ failure_risk_response = NoFailureResponse
    /\ top = << >>
    /\ health = << >>
    /\ path = << >>
    /\ comparison = << >>

\* The script runs top to bottom; st.button is True only in the run that the
\* click triggered (line 152).
Submit(clicked) ==
    /\ pc = "idle"
    /\ pc' = IF clicked THEN "predict" ELSE "comparison"
    /\ UNCHANGED <<calls, response, risk_response, failure_risk_response,
                   top, health, path, comparison>>

Predict(r) ==
    /\ pc = "predict"
    /\ calls' = Append(calls, "predict")
    /\ response' = r
    /\ top' = PredictionBlock(r).widgets
    /\ pc' = IF PredictionBlock(r).proceeds THEN "health" ELSE "comparison"
    /\ UNCHANGED <<risk_response, failure_risk_response, health, path, comparison>>

\* HealthRisk that issues the failure-risk call once more when it fails
HealthRiskRetry(rr) ==
    /\ pc = "health"
    /\ calls' = IF rr.kind = "response"
                THEN Append(calls, "failure-risk")
                ELSE calls \o << "failure-risk", "failure-risk" >>
    /\ risk_response' = rr
    /\ health' = HealthSection(rr, response.body.confidence.num).widgets
    /\ path' = HealthSection(rr, response.body.confidence.num).path
    /\ top' = Append(top, W("expander", "View Full Response", "result", 0))
    /\ pc' = "comparison"
    /\ UNCHANGED <<response, failure_risk_response, comparison>>

\* lines 212-302: reached only when the prediction block rendered completely
HealthRisk(rr) ==
    /\ pc = "health"
    /\ calls' = Append(calls, "failure-risk")
    /\ risk_response' = rr
    /\ health' = HealthSection(rr, response.body.confidence.num).widgets
    /\ path' = HealthSection(rr, response.body.confidence.num).path
    /\ top' = Append(top, W("expander", "View Full Response", "result", 0))
    /\ pc' = "comparison"
    /\ UNCHANGED <<response, failure_risk_response, comparison>>

\* lines 315-408: the right column runs in every script run
Comparison(fr) ==
    /\ pc = "comparison"
    /\ calls' = Append(calls, "failure-risk")
    /\ failure_risk_response' = fr
    /\ comparison' = ComparisonSection(fr)
    /\ pc' = "done"
    /\ UNCHANGED <<response, risk_response, top, health, path>>

\* the next interaction reruns the script from a blank page
Rerun ==
    /\ pc = "done"
    /\ pc' = "idle"
    /\ calls' = << >>
    /\ response' = NoResponse
    /\ risk_response' = NoRiskResponse
    /\ failure_risk_response' = NoFailureResponse
    /\ top' = << >>
    /\ health' = << >>
    /\ path' = << >>
    /\ comparison' = << >>

Next ==
    \/ \E clicked \in BOOLEAN : Submit(clicked)
    \/ \E r \in PredictResponses : Predict(r)
    \/ \E rr \in RiskResponses : HealthRisk(rr)
    \/ \E fr \in FailureResponses : Comparison(fr)
    \/ Rerun

Spec == Init /\ [][Next]_vars

----------------------------------------------------------------------------
(* What the properties below read off a state *)

Decoded(r) == r.kind = "response" /\ r.status = StatusOK /\ r.decodes

\* the health section has run in this script run
HealthRan == risk_response.kind # "none"

Confidence == response.body.confidence.num

OverallDegradation ==
    Get(risk_response.body.degradation.overall_degradation, Num(0))

NumberOrAbsent(v) == v.tag \in {"absent", "num"}

Last(ws) == ws[Len(ws)]

Count(seq, x) == Cardinality({i \in 1..Len(seq) : seq[i] = x})

----------------------------------------------------------------------------
(* C1: in both confidence-fallback branches (error marker, failed call)    *)
(* the indicator is HEALTHY for c > 0.75, RISKY for 0.5 < c <= 0.75 and    *)
(* CRITICAL for c <= 0.5, and the Health Status and Risk Level metrics     *)
(* beside it use the same two boundaries.                                  *)
C1_ConfidenceThresholds ==
    (HealthRan /\ path # << >> /\ Last(path) \in {"marker", "except"}) =>
        LET level == Last(Indicators(health)).label
            status == Last(Metric(health, "Health Status")).text
            risk == Last(Metric(health, "Risk Level")).text
        IN  /\ Confidence > 75 =>
                level = "HEALTHY" /\ status = "Healthy" /\ risk = "Low"
            /\ (Confidence > 50 /\ Confidence <= 75) =>
                level = "RISKY" /\ status = "Risky" /\ risk = "Medium"
            /\ Confidence <= 50 =>
                level = "CRITICAL" /\ status = "Critical" /\ risk = "High"

C1_Witness ==
    /\ path = << "marker" >>
    /\ Confidence = 75
    /\ Indicators(health)[1].label = "RISKY"
    /\ Metric(health, "Health Status")[1].text = "Risky"

(* C2 as stated: with status 200 and no error marker in the body, the      *)
(* section shows a verdict and every indicator it shows is decided by the  *)
(* risk field alone: HIGH is CRITICAL, MEDIUM is RISKY, anything else or   *)
(* an absent field is HEALTHY, whatever the confidence.                    *)
C2_RiskFieldDecides ==
    (/\ HealthRan
     /\ Decoded(risk_response)
     /\ risk_response.body.error.tag = "absent") =>
        /\ Len(Indicators(health)) >= 1
        /\ \A i \in 1..Len(Indicators(health)) :
                Indicators(health)[i].label =
                    (IF risk_response.body.risk = Str("HIGH") THEN "CRITICAL"
                     ELSE IF risk_response.body.risk = Str("MEDIUM") THEN "RISKY"
                     ELSE "HEALTHY")

(* C3: a body that carries the error marker, whatever the marker's value   *)
(* and whatever risk and degradation it also carries, renders exactly what *)
(* the failed-call fallback renders for the same confidence.               *)
C3_MarkerEqualsFailedCall ==
    (/\ HealthRan
     /\ Decoded(risk_response)
     /\ risk_response.body.error.tag # "absent") =>
        /\ path = << "marker" >>
        /\ health = ExceptBranch(Confidence)

C3_Witness ==
    /\ path = << "marker" >>
    /\ risk_response.body.error = Num(0)
    /\ risk_response.body.risk = Str("HIGH")
    /\ risk_response.body.degradation.overall_degradation = Num(42)
    /\ Confidence = 76
    /\ Indicators(health)[1].label = "HEALTHY"
    /\ Progress(health)[1].num = 76

(* C4 as stated: the telemetry branch's progress value is the overall      *)
(* degradation whenever that is above 0, and the confidence when it is 0   *)
(* or absent.                                                              *)
C4_Original ==
    (/\ HealthRan
     /\ path # << >> /\ Head(path) = "telemetry"
     /\ risk_response.body.degradation.tag # "other"
     /\ OverallDegradation.tag = "num") =>
        /\ OverallDegradation.num > 0 =>
                Progress(health)[1].num = OverallDegradation.num
        /\ OverallDegradation.num = 0 =>
                Progress(health)[1].num = Confidence

(* C4 amended: the telemetry branch's progress value is the overall        *)
(* degradation when that is above 0 and at most 1, is 1 when it is above   *)
(* 1, and is the confidence when it is 0, negative or absent.              *)
C4_ClampedProgress ==
    (/\ HealthRan
     /\ path # << >> /\ Head(path) = "telemetry"
     /\ risk_response.body.degradation.tag # "other"
     /\ OverallDegradation.tag = "num") =>
        /\ (OverallDegradation.num > 0 /\ OverallDegradation.num <= 100) =>
                Progress(health)[1].num = OverallDegradation.num
        /\ OverallDegradation.num > 100 =>
                Progress(health)[1].num = 100
        /\ OverallDegradation.num <= 0 =>
                Progress(health)[1].num = Confidence

C4_Witness ==
    /\ path = << "telemetry" >>
    /\ risk_response.body.degradation.overall_degradation = Num(42)
    /\ Confidence = 76
    /\ Progress(health)[1].num = 42

(* C5 as stated: every transport failure of the failure-risk call          *)
(* (connection error, timeout, non-2xx status, undecodable body) renders   *)
(* the confidence-threshold verdict with the confidence as progress value. *)
C5_TransportFailureFallsBack ==
    (/\ HealthRan
     /\ \/ risk_response.kind \in {"ConnectionError", "ReadTimeout"}
        \/ risk_response.kind = "response"
            /\ (risk_response.status < 200 \/ risk_response.status > 299)
        \/ risk_response.kind = "response"
            /\ risk_response.status = 200 /\ ~risk_response.decodes) =>
        /\ Len(Indicators(health)) = 1
        /\ Indicators(health)[1].label =
                (IF Confidence > 75 THEN "HEALTHY"
                 ELSE IF Confidence > 50 THEN "RISKY" ELSE "CRITICAL")
        /\ Len(Progress(health)) = 1
        /\ Progress(health)[1].num = Confidence

(* C6 as stated: once the prediction block has rendered and the            *)
(* failure-risk call has returned or failed, in whatever way, the section  *)
(* shows a per-prediction health indicator.                                *)
C6_VerdictAlwaysRendered ==
    (HealthRan /\ pc \in {"comparison", "done"}) => Len(Indicators(health)) >= 1

(* C7: the system-wide indicator, when the comparison section shows it, is *)
(* decided by failure_probability alone (absent counts as 0): below 0.3    *)
(* HEALTHY, from 0.3 below 0.7 AT_RISK, from 0.7 CRITICAL; a decoded       *)
(* well-typed report always shows it, whatever the health section showed.  *)
C7_SystemHealthByProbability ==
    LET shown == SelectSeq(comparison, LAMBDA w : w.kind = "system_health")
        body == failure_risk_response.body
        fp == Get(body.failure_probability, Num(0))
    IN  /\ Len(shown) <= 1
        /\ Len(shown) = 1 =>
            /\ Decoded(failure_risk_response)
            /\ fp.tag = "num"
            /\ fp.num < 30 => shown[1].label = "HEALTHY"
            /\ (fp.num >= 30 /\ fp.num < 70) => shown[1].label = "AT_RISK"
            /\ fp.num >= 70 => shown[1].label = "CRITICAL"
        /\ (/\ Decoded(failure_risk_response)
            /\ body.metrics_tag # "other"
            /\ NumberOrAbsent(body.avg_confidence)
            /\ NumberOrAbsent(body.failure_probability)) => Len(shown) = 1

C7_Witness ==
    /\ pc = "done"
    /\ failure_risk_response.body.failure_probability = Num(29)
    /\ \E i \in 1..Len(comparison) :
            comparison[i].kind = "system_health" /\ comparison[i].label = "HEALTHY"
    /\ Len(Indicators(health)) = 1
    /\ Indicators(health)[1].label = "CRITICAL"

(* C8 as stated: a script run issues at most two remote calls, the         *)
(* prediction and then the failure-risk call, and calls no endpoint twice. *)
C8_Original ==
    /\ Len(calls) <= 2
    /\ Count(calls, "predict") <= 1
    /\ Count(calls, "failure-risk") <= 1

(* C8 amended: a script run issues at most three remote calls: the         *)
(* prediction first and at most once, then the failure-risk call of the    *)
(* health section at most once, then the failure-risk call of the          *)
(* comparison section exactly once, whatever the first two returned.       *)
C8_AtMostThreeCalls ==
    /\ Len(calls) <= 3
    /\ Count(calls, "predict") <= 1
    /\ \A i \in 1..Len(calls) : calls[i] = "predict" => i = 1
    /\ Count(calls, "failure-risk") =
            (IF HealthRan THEN 1 ELSE 0) + (IF pc = "done" THEN 1 ELSE 0)
    /\ HealthRan => calls[1] = "predict"

C8_Witness ==
    /\ pc = "done"
    /\ risk_response.kind = "ReadTimeout"
    /\ calls = << "predict", "failure-risk", "failure-risk" >>

(* C9: every value handed to st.progress by the health section lies in     *)
(* [0, 1], also when overall_degradation exceeds 1.                        *)
C9_ProgressInUnitInterval ==
    \A i \in 1..Len(health) :
        health[i].kind = "progress" => (health[i].num >= 0 /\ health[i].num <= 100)

C9_Witness ==
    /\ path = << "telemetry" >>
    /\ OverallDegradation.num = MaxDegradation
    /\ OverallDegradation.num > 100
    /\ Progress(health)[1].num = 100

(* C10 as stated: one script run shows at most one per-prediction health   *)
(* indicator.                                                              *)
C10_AtMostOneIndicator ==
    Len(Indicators(health)) <= 1
====
